---------------------------- MODULE Spec2Model ----------------------------
(***************************************************************************)
(* Model of the ext_session_lock_v1 client bindings                        *)
(* (tuxx/wayland-ext-session-lock-go): the three proxies (Manager, Lock,   *)
(* LockSurface), their requests, their listener slices and their Dispatch  *)
(* methods, over the Wire Context (wl.Context) they are registered in.     *)
(*                                                                         *)
(* One caller at a time:                                                   *)
(*   Spec           the request methods and the objects they create        *)
(*   SpecEvents     listener registration and event dispatch on a Manager, *)
(*                  a Lock and a LockSurface                               *)
(*   SpecLifecycle  object creation, listener registration and dispatch    *)
(* Several goroutines:                                                     *)
(*   SpecConc       two goroutines adding and removing locked handlers of  *)
(*                  one Lock while a third one dispatches events to it,    *)
(*                  statement by statement, over the slice header, its     *)
(*                  backing arrays and the RWMutex l.mu                    *)
(*   SpecClient     the example client (example/simple_locker): its main   *)
(*                  goroutine, its event loop and its signal goroutine     *)
(***************************************************************************)
EXTENDS Integers, Sequences, FiniteSets, TLC

(***************************************************************************)
(* Bounds of the model.                                                    *)
(***************************************************************************)
\* highest object id the Wire Context hands out
MaxId == 9
\* handler identities are 1..NumHandlers; 0 is the nil handler
NumHandlers == 2
\* handlers registered over all objects together
MaxListeners == 3
\* the same, where objects are created as well (SpecLifecycle)
MaxLifeListeners == 1
\* event opcodes delivered are 0..MaxOpcode
MaxOpcode == 2
\* handlers registered with the Lock of SpecConc, calls in progress included
MaxConcListeners == 2

Handlers == 1..NumHandlers
NilHandler == 0

(***************************************************************************)
(* Protocol opcodes (iota constants of the source).                        *)
(***************************************************************************)
ManagerRequestDestroy == 0
ManagerRequestLock == 1
LockRequestDestroy == 0
LockRequestGetLockSurface == 1
LockRequestUnlockAndDestroy == 2
LockEventLocked == 0
LockEventFinished == 1
SurfaceRequestDestroy == 0
SurfaceRequestAckConfigure == 1
SurfaceEventConfigure == 0

\* uint32 values used as the serial of AckConfigure
Words == {7, 1920}
\* payloads of a configure event: three uint32 words
Payloads == {<<7, 1920, 1080>>, <<1080, 7, 1920>>, <<1920, 1080, 7>>}

VARIABLES
    currentId,     \* wl.Context: the last object id assigned
    objects,       \* wl.Context: id -> kind of the proxy registered under it
    privateSessionLockLocked,    \* Lock id -> slice of locked handlers
    privateSessionLockFinished,  \* Lock id -> slice of finished handlers
    privateSessionLockSurfaceConfigure, \* LockSurface id -> slice of handlers
    destroyed,     \* ids whose Destroy / UnlockAndDestroy has been written
    call,          \* the request call in progress (the caller's position)
    out,           \* the SendRequest calls the last step made
    ret,           \* what the request call ended by the last step returned
    lastEvent,     \* the event the last step handed to a proxy's Dispatch
    calls,         \* the handler invocations the last step made, in order
    mu,            \* SpecConc: l.mu, the RWMutex of the Lock
    slice,         \* SpecConc: the header of l.privateSessionLockLocked
    heap,          \* SpecConc: the backing arrays, by capacity
    thread,        \* SpecConc: each goroutine's position and locals
    snapshot,      \* SpecConc: the handlers registered when the fan-out began
    client,        \* SpecClient: the fields and goroutines of the LockClient
    reg            \* the Remove handler call the last step made, if any

conc == <<mu, slice, heap, thread, snapshot>>

vars == <<currentId, objects, privateSessionLockLocked,
          privateSessionLockFinished, privateSessionLockSurfaceConfigure,
          destroyed, call, out, ret, lastEvent, calls, conc, client, reg>>

privates == <<privateSessionLockLocked, privateSessionLockFinished,
              privateSessionLockSurfaceConfigure>>

(***************************************************************************)
(* Listener slices.  A slice value is the sequence of its elements; the    *)
(* cells of the backing array beyond its length are read by no statement   *)
(* of the package and are left out.                                        *)
(***************************************************************************)
NilSlice == <<>>

\* append(s, h)
GoAppend(s, h) == Append(s, h)

\* s[:i] alone: the entries behind the match are dropped with it
GoDeleteTail(s, i) == SubSeq(s, 1, i - 1)

\* append(s[:i], s[i+1:]...) for the 1-based position i <= len(s)
GoDelete(s, i) == SubSeq(s, 1, i - 1) \o SubSeq(s, i + 1, Len(s))

\* a search that keeps going after a match: the last match, or 0
LastMatch(s, h) ==
    IF \E i \in 1..Len(s) : s[i] = h
    THEN CHOOSE i \in 1..Len(s) :
             s[i] = h /\ \A j \in (i + 1)..Len(s) : s[j] # h
    ELSE 0

\* for i, e := range s { if e == h { ...; break } }: the first match, or 0
FirstMatch(s, h) ==
    IF \E i \in 1..Len(s) : s[i] = h
    THEN CHOOSE i \in 1..Len(s) :
             s[i] = h /\ \A j \in 1..(i - 1) : s[j] # h
    ELSE 0

\* the body of AddXHandler: if h != nil { s = append(s, h) }
AddHandler(s, h) == IF h # NilHandler THEN GoAppend(s, h) ELSE s

\* the body of RemoveXHandler: delete the first entry equal to h, if any
\* a removal that drops the newest entry when it finds no match
RemoveHandlerOrLast(s, h) ==
    IF FirstMatch(s, h) # 0 THEN GoDelete(s, FirstMatch(s, h))
    ELSE SubSeq(s, 1, Len(s) - 1)

\* the body of RemoveXHandler: delete the first entry equal to h, if any
RemoveHandler(s, h) ==
    IF FirstMatch(s, h) # 0 THEN GoDelete(s, FirstMatch(s, h)) ELSE s

(***************************************************************************)
(* The Wire Context: Register assigns the next id and stores the proxy     *)
(* under it; SendRequest writes one message or fails.                      *)
(***************************************************************************)
Extend(f, k, v) == [i \in DOMAIN f \cup {k} |-> IF i = k THEN v ELSE f[i]]

IdsOf(kind) == {i \in DOMAIN objects : objects[i] = kind}

NextId == currentId + 1

\* ctx.Register(proxy)
Register(kind) ==
    /\ currentId' = NextId
    /\ objects' = Extend(objects, NextId, kind)

\* one call of SendRequest: the message, and whether it was written
Msg(sender, opcode, args, ok) ==
    [sender |-> sender, opcode |-> opcode, args |-> args, ok |-> ok]

\* ctx.SendRequest(proxy, opcode, args...): ok says whether the write succeeded
SendRequest(sender, opcode, args, ok) ==
    out' = <<Msg(sender, opcode, args, ok)>>

Idle == [op |-> "idle", self |-> 0, retId |-> 0, surface |-> 0, output |-> 0]

NoReturn == [from |-> "", proxy |-> 0, err |-> FALSE]

Return(from, proxy, err) == [from |-> from, proxy |-> proxy, err |-> err]

NoEvent == [target |-> 0, Opcode |-> 0, data |-> <<>>]

\* a step that ends no request call sends nothing and returns nothing
NoRequest == out' = <<>> /\ ret' = NoReturn

\* no Remove handler call
NoRegistration == [op |-> "", kind |-> "", obj |-> 0, h |-> 0, i |-> 0]

\* one Remove handler call on the slice kind of object obj; i is the
\* position at which its loop found h, 0 if it found none
Registration(op, kind, obj, h, i) ==
    [op |-> op, kind |-> kind, obj |-> obj, h |-> h, i |-> i]

\* a step that delivers no event invokes no handler
NoDispatch == lastEvent' = NoEvent /\ calls' = <<>>

TotalListeners ==
    LET RECURSIVE Sum(_, _)
        Sum(f, S) == IF S = {} THEN 0
                     ELSE LET x == CHOOSE y \in S : TRUE
                          IN Len(f[x]) + Sum(f, S \ {x})
    IN Sum(privateSessionLockLocked, DOMAIN privateSessionLockLocked)
       + Sum(privateSessionLockFinished, DOMAIN privateSessionLockFinished)
       + Sum(privateSessionLockSurfaceConfigure,
             DOMAIN privateSessionLockSurfaceConfigure)

\* the nil slice: no backing array
NilHeader == [ptr |-> 0, len |-> 0, cap |-> 0]

\* a goroutine that is in no call
ThreadIdle == [pc |-> "idle", op |-> "", h |-> NilHandler, s |-> NilHeader, i |-> 0]

Writers == {"w1", "w2"}
Dispatcher == "d"

\* the call a handler makes on the object whose event it is handling: it runs
\* on the dispatcher's goroutine, inside the fan-out
Nested == "h"

Threads == Writers \cup {Dispatcher, Nested}

\* the zero RWMutex: no writer, no reader
Unlocked == [writer |-> "", held |-> FALSE, readers |-> 0]

\* NewLockClient(), after Connect() has returned: no lock, no lock surface,
\* done open, the signal goroutine waiting on sigChan
NewLockClient ==
    [main |-> "start", lock |-> 0, lockedReceived |-> FALSE, done |-> FALSE,
     signal |-> "waiting", todo |-> {}, surfaces |-> <<>>]

\* one caller at a time: l.mu is free and no goroutine is inside a call
NoConc ==
    /\ mu = Unlocked
    /\ slice = NilHeader
    /\ heap = <<>>
    /\ thread = [t \in Threads |-> ThreadIdle]
    /\ snapshot = <<>>
    /\ client = NewLockClient

(***************************************************************************)
(* Init: a context holding the registry, two wl_surfaces, two wl_outputs   *)
(* and the manager that NewSessionLockManager registered.                  *)
(***************************************************************************)
BootObjects ==
    <<"Registry", "WlSurface", "WlSurface", "WlOutput", "WlOutput", "Manager">>

Init ==
    /\ currentId = Len(BootObjects)
    /\ objects = BootObjects
    /\ privateSessionLockLocked = <<>>
    /\ privateSessionLockFinished = <<>>
    /\ privateSessionLockSurfaceConfigure = <<>>
    /\ destroyed = {}
    /\ call = Idle
    /\ out = <<>>
    /\ ret = NoReturn
    /\ lastEvent = NoEvent
    /\ calls = <<>>
    /\ reg = NoRegistration
    /\ NoConc

(***************************************************************************)
(* Requests.                                                               *)
(***************************************************************************)
\* a request without a new object: return ctx.SendRequest(p, opcode, args...)
\* (teardown: the request is the object's Destroy or UnlockAndDestroy)
\* a request method that sends again when the first write failed
PlainRequestRetry(from, p, opcode, args, teardown) ==
    /\ call.op = "idle"
    /\ \E ok \in BOOLEAN :
          /\ out' = IF ok THEN <<Msg(p, opcode, args, TRUE)>>
                    ELSE <<Msg(p, opcode, args, FALSE), Msg(p, opcode, args, TRUE)>>
          /\ ret' = Return(from, 0, FALSE)
          /\ destroyed' = IF teardown THEN destroyed \cup {p} ELSE destroyed
    /\ NoDispatch
    /\ UNCHANGED <<currentId, objects, privates, call, conc, client>>
    /\ reg' = NoRegistration

\* return p.Context().SendRequest(p, opcode, args...)
PlainRequest(from, p, opcode, args, teardown) ==
    /\ call.op = "idle"
    /\ \E ok \in BOOLEAN :
          /\ SendRequest(p, opcode, args, ok)
          /\ ret' = Return(from, 0, ~ok)
          /\ destroyed' = IF ok /\ teardown THEN destroyed \cup {p}
                          ELSE destroyed
    /\ NoDispatch
    /\ UNCHANGED <<currentId, objects, privates, call, conc, client>>
    /\ reg' = NoRegistration

ManagerDestroy(m) ==
    /\ m \in IdsOf("Manager")
    /\ PlainRequest("ManagerDestroy", m, ManagerRequestDestroy, <<>>, TRUE)

\* a SessionLock that is given the next id but is not stored in the context
NewSessionLockUnregistered ==
    /\ currentId' = NextId
    /\ objects' = objects
    /\ privateSessionLockLocked' =
           Extend(privateSessionLockLocked, NextId, NilSlice)
    /\ privateSessionLockFinished' =
           Extend(privateSessionLockFinished, NextId, NilSlice)
    /\ UNCHANGED privateSessionLockSurfaceConfigure

\* NewSessionLock(ctx): ret := new(SessionLock); ctx.Register(ret)
NewSessionLock ==
    /\ Register("Lock")
    /\ privateSessionLockLocked' =
           Extend(privateSessionLockLocked, NextId, NilSlice)
    /\ privateSessionLockFinished' =
           Extend(privateSessionLockFinished, NextId, NilSlice)
    /\ UNCHANGED privateSessionLockSurfaceConfigure

\* NewSessionLockSurface(ctx)
NewSessionLockSurface ==
    /\ Register("Surface")
    /\ privateSessionLockSurfaceConfigure' =
           Extend(privateSessionLockSurfaceConfigure, NextId, NilSlice)
    /\ UNCHANGED <<privateSessionLockLocked, privateSessionLockFinished>>

\* Manager.Lock, first statement: retId := NewSessionLock(m.Context())
ManagerLock(m) ==
    /\ call.op = "idle"
    /\ m \in IdsOf("Manager")
    /\ currentId < MaxId
    /\ NewSessionLock
    /\ call' = [Idle EXCEPT !.op = "ManagerLock", !.self = m, !.retId = NextId]
    /\ NoRequest
    /\ NoDispatch
    /\ UNCHANGED <<destroyed, conc, client>>
    /\ reg' = NoRegistration

\* Manager.Lock returning no proxy when the write failed
ManagerLockSendNilOnError ==
    /\ call.op = "ManagerLock"
    /\ \E ok \in BOOLEAN :
          /\ SendRequest(call.self, ManagerRequestLock, <<call.retId>>, ok)
          /\ ret' = Return("ManagerLock", IF ok THEN call.retId ELSE 0, ~ok)
    /\ call' = Idle
    /\ NoDispatch
    /\ UNCHANGED <<currentId, objects, privates, destroyed, conc, client>>
    /\ reg' = NoRegistration

\* Manager.Lock, second statement:
\* return retId, m.Context().SendRequest(m, ManagerRequestLock, retId)
ManagerLockSend ==
    /\ call.op = "ManagerLock"
    /\ \E ok \in BOOLEAN :
          /\ SendRequest(call.self, ManagerRequestLock, <<call.retId>>, ok)
          /\ ret' = Return("ManagerLock", call.retId, ~ok)
    /\ call' = Idle
    /\ NoDispatch
    /\ UNCHANGED <<currentId, objects, privates, destroyed, conc, client>>
    /\ reg' = NoRegistration

LockDestroy(l) ==
    /\ l \in IdsOf("Lock")
    /\ PlainRequest("LockDestroy", l, LockRequestDestroy, <<>>, TRUE)

\* Lock.GetLockSurface, first statement: retId := NewSessionLockSurface(...)
LockGetLockSurface(l, surface, output) ==
    /\ call.op = "idle"
    /\ l \in IdsOf("Lock")
    /\ surface \in IdsOf("WlSurface")
    /\ output \in IdsOf("WlOutput")
    /\ currentId < MaxId
    /\ NewSessionLockSurface
    /\ call' = [op |-> "GetLockSurface", self |-> l, retId |-> NextId,
                surface |-> surface, output |-> output]
    /\ NoRequest
    /\ NoDispatch
    /\ UNCHANGED <<destroyed, conc, client>>
    /\ reg' = NoRegistration

\* GetLockSurface with the surface and the output in each other's place
LockGetLockSurfaceSendSwapped ==
    /\ call.op = "GetLockSurface"
    /\ \E ok \in BOOLEAN :
          /\ SendRequest(call.self, LockRequestGetLockSurface,
                         <<call.retId, call.output, call.surface>>, ok)
          /\ ret' = Return("GetLockSurface", call.retId, ~ok)
    /\ call' = Idle
    /\ NoDispatch
    /\ UNCHANGED <<currentId, objects, privates, destroyed, conc, client>>
    /\ reg' = NoRegistration

\* Lock.GetLockSurface, second statement: return retId,
\* l.Context().SendRequest(l, LockRequestGetLockSurface, retId, surface, output)
LockGetLockSurfaceSend ==
    /\ call.op = "GetLockSurface"
    /\ \E ok \in BOOLEAN :
          /\ SendRequest(call.self, LockRequestGetLockSurface,
                         <<call.retId, call.surface, call.output>>, ok)
          /\ ret' = Return("GetLockSurface", call.retId, ~ok)
    /\ call' = Idle
    /\ NoDispatch
    /\ UNCHANGED <<currentId, objects, privates, destroyed, conc, client>>
    /\ reg' = NoRegistration

LockUnlockAndDestroy(l) ==
    /\ l \in IdsOf("Lock")
    /\ PlainRequest("UnlockAndDestroy", l, LockRequestUnlockAndDestroy,
                    <<>>, TRUE)

SurfaceDestroy(s) ==
    /\ s \in IdsOf("Surface")
    /\ PlainRequest("SurfaceDestroy", s, SurfaceRequestDestroy, <<>>, TRUE)

SurfaceAckConfigure(s, serial) ==
    /\ s \in IdsOf("Surface")
    /\ PlainRequest("AckConfigure", s, SurfaceRequestAckConfigure,
                    <<serial>>, FALSE)

(***************************************************************************)
(* Listener registration.  With one caller the write lock l.mu is always   *)
(* free, so each call runs from Lock() to Unlock() in one step.            *)
(***************************************************************************)
Registered ==
    /\ call.op = "idle"
    /\ NoRequest
    /\ NoDispatch
    /\ UNCHANGED <<currentId, objects, destroyed, call, conc, client>>

AddLockedHandler(l, h) ==
    /\ l \in IdsOf("Lock")
    /\ TotalListeners < MaxListeners
    /\ privateSessionLockLocked' =
           [privateSessionLockLocked EXCEPT ![l] = AddHandler(@, h)]
    /\ UNCHANGED <<privateSessionLockFinished,
                   privateSessionLockSurfaceConfigure>>
    /\ reg' = NoRegistration
    /\ Registered

RemoveLockedHandler(l, h) ==
    /\ l \in IdsOf("Lock")
    /\ privateSessionLockLocked' =
           [privateSessionLockLocked EXCEPT ![l] = RemoveHandler(@, h)]
    /\ UNCHANGED <<privateSessionLockFinished,
                   privateSessionLockSurfaceConfigure>>
    /\ reg' = Registration("Remove", "Locked", l, h,
                           FirstMatch(privateSessionLockLocked[l], h))
    /\ Registered

AddFinishedHandler(l, h) ==
    /\ l \in IdsOf("Lock")
    /\ TotalListeners < MaxListeners
    /\ privateSessionLockFinished' =
           [privateSessionLockFinished EXCEPT ![l] = AddHandler(@, h)]
    /\ UNCHANGED <<privateSessionLockLocked,
                   privateSessionLockSurfaceConfigure>>
    /\ reg' = NoRegistration
    /\ Registered

RemoveFinishedHandler(l, h) ==
    /\ l \in IdsOf("Lock")
    /\ privateSessionLockFinished' =
           [privateSessionLockFinished EXCEPT ![l] = RemoveHandler(@, h)]
    /\ UNCHANGED <<privateSessionLockLocked,
                   privateSessionLockSurfaceConfigure>>
    /\ reg' = Registration("Remove", "Finished", l, h,
                           FirstMatch(privateSessionLockFinished[l], h))
    /\ Registered

AddConfigureHandler(s, h) ==
    /\ s \in IdsOf("Surface")
    /\ TotalListeners < MaxListeners
    /\ privateSessionLockSurfaceConfigure' =
           [privateSessionLockSurfaceConfigure EXCEPT ![s] = AddHandler(@, h)]
    /\ UNCHANGED <<privateSessionLockLocked, privateSessionLockFinished>>
    /\ reg' = NoRegistration
    /\ Registered

RemoveConfigureHandler(s, h) ==
    /\ s \in IdsOf("Surface")
    /\ privateSessionLockSurfaceConfigure' =
           [privateSessionLockSurfaceConfigure EXCEPT ![s] = RemoveHandler(@, h)]
    /\ UNCHANGED <<privateSessionLockLocked, privateSessionLockFinished>>
    /\ reg' = Registration("Remove", "Configure", s, h,
                           FirstMatch(privateSessionLockSurfaceConfigure[s], h))
    /\ Registered

(***************************************************************************)
(* Events.  An event is an opcode and a cursor over uint32 words; the Wire *)
(* Context hands it to the Dispatch of the proxy registered under the id   *)
(* it is addressed to.                                                     *)
(***************************************************************************)
Event(opcode, data) == [Opcode |-> opcode, data |-> data]

\* event.Uint32(): the word under the cursor
Uint32(event) == Head(event.data)

\* the event with its cursor moved past the word just read
Advance(event) == [event EXCEPT !.data = Tail(@)]

\* one handler invocation: h.HandleX(ev) on a listener of object obj
Invocation(obj, name, h, ev) == [obj |-> obj, event |-> name, h |-> h, ev |-> ev]

\* the loop run from the last listener to the first
FanOutReversed(obj, name, s, ev) ==
    [i \in 1..Len(s) |-> Invocation(obj, name, s[Len(s) + 1 - i], ev)]

\* for _, h := range s { h.HandleX(ev) }
FanOut(obj, name, s, ev) ==
    [i \in 1..Len(s) |-> Invocation(obj, name, s[i], ev)]

SessionLockLockedEvent == <<>>
SessionLockFinishedEvent == <<>>

\* the decoder with the second and the third word in each other's field
SessionLockSurfaceConfigureEventSwapped(event) ==
    LET e1 == Advance(event)
        e2 == Advance(e1)
    IN [Serial |-> Uint32(event), Width |-> Uint32(e2), Height |-> Uint32(e1)]

\* ev.Serial = event.Uint32(); ev.Width = event.Uint32(); ev.Height = ...
SessionLockSurfaceConfigureEvent(event) ==
    LET e1 == Advance(event)
        e2 == Advance(e1)
    IN [Serial |-> Uint32(event), Width |-> Uint32(e1), Height |-> Uint32(e2)]

\* SessionLockManager.Dispatch: no events to dispatch for the manager
ManagerDispatchCalls(m, event) == <<>>

\* a Dispatch whose two cases are exchanged
LockDispatchCallsSwapped(l, event) ==
    CASE event.Opcode = LockEventLocked ->
             FanOut(l, "Finished", privateSessionLockFinished[l],
                    SessionLockFinishedEvent)
      [] event.Opcode = LockEventFinished ->
             FanOut(l, "Locked", privateSessionLockLocked[l],
                    SessionLockLockedEvent)
      [] OTHER -> <<>>

\* a Dispatch that treats every opcode it does not know as finished
LockDispatchCallsDefault(l, event) ==
    CASE event.Opcode = LockEventLocked ->
             FanOut(l, "Locked", privateSessionLockLocked[l],
                    SessionLockLockedEvent)
      [] OTHER ->
             FanOut(l, "Finished", privateSessionLockFinished[l],
                    SessionLockFinishedEvent)

\* SessionLock.Dispatch
LockDispatchCalls(l, event) ==
    CASE event.Opcode = LockEventLocked ->
             IF Len(privateSessionLockLocked[l]) > 0
             THEN FanOut(l, "Locked", privateSessionLockLocked[l],
                         SessionLockLockedEvent)
             ELSE <<>>
      [] event.Opcode = LockEventFinished ->
             IF Len(privateSessionLockFinished[l]) > 0
             THEN FanOut(l, "Finished", privateSessionLockFinished[l],
                         SessionLockFinishedEvent)
             ELSE <<>>
      [] OTHER -> <<>>

\* a Dispatch over one listener slice shared by all LockSurfaces
SurfaceDispatchCallsShared(s, event) ==
    CASE event.Opcode = SurfaceEventConfigure ->
             LET any == CHOOSE t \in DOMAIN privateSessionLockSurfaceConfigure :
                            \A u \in DOMAIN privateSessionLockSurfaceConfigure :
                                Len(privateSessionLockSurfaceConfigure[u])
                                    <= Len(privateSessionLockSurfaceConfigure[t])
             IN FanOut(any, "Configure", privateSessionLockSurfaceConfigure[any],
                       SessionLockSurfaceConfigureEvent(event))
      [] OTHER -> <<>>

\* SessionLockSurface.Dispatch
SurfaceDispatchCalls(s, event) ==
    CASE event.Opcode = SurfaceEventConfigure ->
             IF Len(privateSessionLockSurfaceConfigure[s]) > 0
             THEN FanOut(s, "Configure", privateSessionLockSurfaceConfigure[s],
                         SessionLockSurfaceConfigureEvent(event))
             ELSE <<>>
      [] OTHER -> <<>>

\* the Wire Context hands the event to the proxy registered under target
Delivered(target, event, made) ==
    /\ call.op = "idle"
    /\ lastEvent' = [target |-> target, Opcode |-> event.Opcode,
                     data |-> event.data]
    /\ calls' = made
    /\ NoRequest
    /\ UNCHANGED <<currentId, objects, privates, destroyed, call, conc, client>>
    /\ reg' = NoRegistration

ManagerDispatch(m, event) ==
    /\ m \in IdsOf("Manager")
    /\ Delivered(m, event, ManagerDispatchCalls(m, event))

LockDispatch(l, event) ==
    /\ l \in IdsOf("Lock")
    /\ Delivered(l, event, LockDispatchCalls(l, event))

SurfaceDispatch(s, event) ==
    /\ s \in IdsOf("Surface")
    /\ Delivered(s, event, SurfaceDispatchCalls(s, event))

\* the events the compositor may send: any opcode up to MaxOpcode.  A
\* configure event carries three words (Uint32 panics on a shorter one, and
\* the compositor never sends one); every other event carries none.
EmptyEvents == {Event(o, <<>>) : o \in 0..MaxOpcode}

SurfaceEvents ==
    {Event(SurfaceEventConfigure, d) : d \in Payloads}
    \cup {e \in EmptyEvents : e.Opcode # SurfaceEventConfigure}

Locks == IdsOf("Lock")
Surfaces == IdsOf("Surface")
Managers == IdsOf("Manager")

\* the requests that yield a new object
Creations ==
    \/ \E m \in Managers : ManagerLock(m)
    \/ ManagerLockSend
    \/ \E l \in Locks, s \in IdsOf("WlSurface"), o \in IdsOf("WlOutput") :
          LockGetLockSurface(l, s, o)
    \/ LockGetLockSurfaceSend

\* the other requests
Requests ==
    \/ \E m \in Managers : ManagerDestroy(m)
    \/ \E l \in Locks : LockDestroy(l)
    \/ \E l \in Locks : LockUnlockAndDestroy(l)
    \/ \E s \in Surfaces : SurfaceDestroy(s)
    \/ \E s \in Surfaces, w \in Words : SurfaceAckConfigure(s, w)

\* listener registration
Registrations ==
    \/ \E l \in Locks, h \in 0..NumHandlers : AddLockedHandler(l, h)
    \/ \E l \in Locks, h \in 0..NumHandlers : RemoveLockedHandler(l, h)
    \/ \E l \in Locks, h \in 0..NumHandlers : AddFinishedHandler(l, h)
    \/ \E l \in Locks, h \in 0..NumHandlers : RemoveFinishedHandler(l, h)
    \/ \E s \in Surfaces, h \in 0..NumHandlers : AddConfigureHandler(s, h)
    \/ \E s \in Surfaces, h \in 0..NumHandlers : RemoveConfigureHandler(s, h)

\* event delivery
Dispatches ==
    \/ \E m \in Managers, e \in EmptyEvents : ManagerDispatch(m, e)
    \/ \E l \in Locks, e \in EmptyEvents : LockDispatch(l, e)
    \/ \E s \in Surfaces, e \in SurfaceEvents : SurfaceDispatch(s, e)

Next == Creations \/ Requests

Spec == Init /\ [][Next]_vars

(***************************************************************************)
(* SpecEvents: registration and dispatch on a context in which             *)
(* Manager.Lock and Lock.GetLockSurface have returned.                     *)
(***************************************************************************)
LockedObjects == BootObjects \o <<"Lock", "Surface">>

InitEvents ==
    /\ currentId = Len(LockedObjects)
    /\ objects = LockedObjects
    /\ privateSessionLockLocked = [i \in {Len(BootObjects) + 1} |-> NilSlice]
    /\ privateSessionLockFinished = [i \in {Len(BootObjects) + 1} |-> NilSlice]
    /\ privateSessionLockSurfaceConfigure =
           [i \in {Len(BootObjects) + 2} |-> NilSlice]
    /\ destroyed = {}
    /\ call = Idle
    /\ out = <<>>
    /\ ret = NoReturn
    /\ lastEvent = NoEvent
    /\ calls = <<>>
    /\ reg = NoRegistration
    /\ NoConc

NextEvents == Registrations \/ Dispatches

SpecEvents == InitEvents /\ [][NextEvents]_vars

(***************************************************************************)
(* SpecLifecycle: proxies are created, listeners attached and events       *)
(* delivered, from the context Init describes.                             *)
(***************************************************************************)
\* registration while fewer than MaxLifeListeners handlers are registered
FewListeners == TotalListeners < MaxLifeListeners

NextLifecycle ==
    \/ \E m \in Managers : ManagerLock(m)
    \/ ManagerLockSend
    \/ \E l \in Locks, s \in IdsOf("WlSurface"), o \in IdsOf("WlOutput") :
          LockGetLockSurface(l, s, o)
    \/ LockGetLockSurfaceSend
    \/ \E l \in Locks, h \in 0..NumHandlers :
          FewListeners /\ AddLockedHandler(l, h)
    \/ \E l \in Locks, h \in 0..NumHandlers : RemoveLockedHandler(l, h)
    \/ \E l \in Locks, h \in 0..NumHandlers :
          FewListeners /\ AddFinishedHandler(l, h)
    \/ \E l \in Locks, h \in 0..NumHandlers : RemoveFinishedHandler(l, h)
    \/ \E s \in Surfaces, h \in 0..NumHandlers :
          FewListeners /\ AddConfigureHandler(s, h)
    \/ \E s \in Surfaces, h \in 0..NumHandlers : RemoveConfigureHandler(s, h)
    \/ Dispatches

SpecLifecycle == Init /\ [][NextLifecycle]_vars

(***************************************************************************)
(* SpecTeardown: one caller at a time on a Manager, a SessionLock and a    *)
(* SessionLockSurface that already exist: the requests without a new id    *)
(* (the destroy requests among them), handler registration, and events.    *)
(***************************************************************************)
NextTeardown ==
    \/ \E m \in Managers : ManagerDestroy(m)
    \/ \E l \in Locks : LockDestroy(l)
    \/ \E l \in Locks : LockUnlockAndDestroy(l)
    \/ \E s \in Surfaces : SurfaceDestroy(s)
    \/ \E s \in Surfaces, w \in Words : SurfaceAckConfigure(s, w)
    \/ \E l \in Locks, h \in 0..NumHandlers :
          FewListeners /\ AddLockedHandler(l, h)
    \/ \E l \in Locks, h \in 0..NumHandlers : RemoveLockedHandler(l, h)
    \/ \E l \in Locks, h \in 0..NumHandlers :
          FewListeners /\ AddFinishedHandler(l, h)
    \/ \E l \in Locks, h \in 0..NumHandlers : RemoveFinishedHandler(l, h)
    \/ \E s \in Surfaces, h \in 0..NumHandlers :
          FewListeners /\ AddConfigureHandler(s, h)
    \/ \E s \in Surfaces, h \in 0..NumHandlers : RemoveConfigureHandler(s, h)
    \/ Dispatches

SpecTeardown == InitEvents /\ [][NextTeardown]_vars

(***************************************************************************)
(* SpecConc: goroutines on the locked handlers of one Lock.  The slice is  *)
(* its header (ptr, len, cap) and the backing array the header points to;  *)
(* an array is named by its capacity, which append never hands out twice.  *)
(* privateSessionLockLocked[ConcLock] is the value the slice has when the  *)
(* calls are applied one after the other in the order of their stores.     *)
(***************************************************************************)
ConcLock == Len(BootObjects) + 1

\* the elements of the slice s over the arrays hp
View(s, hp) == [n \in 1..s.len |-> hp[s.ptr][n]]

\* the capacity append chooses when the array is full
Grow(cap) == IF cap = 0 THEN 1 ELSE 2 * cap

\* append(s, h): the header of the result
AppendHeader(s, h) ==
    IF s.len < s.cap THEN [s EXCEPT !.len = @ + 1]
    ELSE [ptr |-> Grow(s.cap), len |-> s.len + 1, cap |-> Grow(s.cap)]

\* append(s, h): the arrays afterwards; h goes into the free cell, or into a
\* new array that starts as a copy of the old one
AppendArrays(s, h, hp) ==
    IF s.len < s.cap THEN [hp EXCEPT ![s.ptr][s.len + 1] = h]
    ELSE Extend(hp, Grow(s.cap),
                [n \in 1..Grow(s.cap) |->
                    IF n <= s.len THEN hp[s.ptr][n]
                    ELSE IF n = s.len + 1 THEN h ELSE NilHandler])

\* append(s[:i], s[i+1:]...): the header of the result
DeleteHeader(s, i) == [s EXCEPT !.len = @ - 1]

\* append(s[:i], s[i+1:]...): the cells behind position i move down by one,
\* in place
DeleteArrays(s, i, hp) ==
    [hp EXCEPT ![s.ptr] =
        [n \in 1..s.cap |-> IF n >= i /\ n < s.len THEN @[n + 1] ELSE @[n]]]

\* Add calls that have not stored their slice yet
AddsInProgress ==
    Cardinality({w \in Writers : thread[w].op = "Add"
                                 /\ thread[w].pc \notin {"idle", "unlock"}})

\* a step of SpecConc sends no request and touches no other object; the
\* event in delivery is the dispatcher's, not lastEvent
ConcStep ==
    UNCHANGED <<currentId, objects, privateSessionLockFinished,
                privateSessionLockSurfaceConfigure, destroyed, call, out, ret,
                lastEvent, client, reg>>

\* a step of a writer delivers nothing
WriterStep ==
    /\ ConcStep
    /\ UNCHANGED <<calls, snapshot>>

\* l.AddLockedHandler(h) is called: returns at once when h is nil
AddLockedCall(w, h) ==
    /\ thread[w].pc = "idle"
    /\ Len(privateSessionLockLocked[ConcLock]) + AddsInProgress
           < MaxConcListeners
    /\ thread' = [thread EXCEPT ![w] =
                     IF h # NilHandler
                     THEN [ThreadIdle EXCEPT !.pc = "lock", !.op = "Add", !.h = h]
                     ELSE ThreadIdle]
    /\ UNCHANGED <<privateSessionLockLocked, mu, slice, heap>>
    /\ WriterStep

\* l.RemoveLockedHandler(h) is called
RemoveLockedCall(w, h) ==
    /\ thread[w].pc = "idle"
    /\ thread' = [thread EXCEPT ![w] =
                     [ThreadIdle EXCEPT !.pc = "lock", !.op = "Remove", !.h = h]]
    /\ UNCHANGED <<privateSessionLockLocked, mu, slice, heap>>
    /\ WriterStep

\* l.mu.Lock(), first half: keep other writers out, hold new readers off
WriterLock(w) ==
    /\ thread[w].pc = "lock"
    /\ mu.writer = ""
    /\ mu' = [mu EXCEPT !.writer = w]
    /\ thread' = [thread EXCEPT ![w].pc = "wait"]
    /\ UNCHANGED <<privateSessionLockLocked, slice, heap>>
    /\ WriterStep

\* l.mu.Lock(), second half: wait until the readers have left
WriterAcquire(w) ==
    /\ thread[w].pc = "wait"
    /\ mu.readers = 0
    /\ mu' = [mu EXCEPT !.held = TRUE]
    /\ thread' = [thread EXCEPT ![w].pc = "load"]
    /\ UNCHANGED <<privateSessionLockLocked, slice, heap>>
    /\ WriterStep

\* append(l.privateSessionLockLocked, h): the right-hand side of the
\* assignment in AddLockedHandler
AddLockedAppend(w) ==
    /\ thread[w].pc = "load"
    /\ thread[w].op = "Add"
    /\ heap' = AppendArrays(slice, thread[w].h, heap)
    /\ thread' = [thread EXCEPT ![w].pc = "store",
                                ![w].s = AppendHeader(slice, thread[w].h)]
    /\ UNCHANGED <<privateSessionLockLocked, mu, slice>>
    /\ WriterStep

\* the loop of RemoveLockedHandler up to the first match, and the
\* right-hand side of the assignment it makes there
RemoveLockedFind(w) ==
    /\ thread[w].pc = "load"
    /\ thread[w].op = "Remove"
    /\ LET i == FirstMatch(View(slice, heap), thread[w].h)
       IN IF i # 0
          THEN /\ heap' = DeleteArrays(slice, i, heap)
               /\ thread' = [thread EXCEPT ![w].pc = "store",
                                           ![w].s = DeleteHeader(slice, i)]
          ELSE /\ heap' = heap
               /\ thread' = [thread EXCEPT ![w].pc = "unlock"]
    /\ UNCHANGED <<privateSessionLockLocked, mu, slice>>
    /\ WriterStep

\* l.privateSessionLockLocked = ...: the assignment of either call
WriterStore(w) ==
    /\ thread[w].pc = "store"
    /\ slice' = thread[w].s
    /\ privateSessionLockLocked' =
           [privateSessionLockLocked EXCEPT ![ConcLock] =
               IF thread[w].op = "Add" THEN AddHandler(@, thread[w].h)
               ELSE RemoveHandler(@, thread[w].h)]
    /\ thread' = [thread EXCEPT ![w].pc = "unlock"]
    /\ UNCHANGED <<mu, heap>>
    /\ WriterStep

\* l.mu.Unlock(), and the call returns
WriterUnlock(w) ==
    /\ thread[w].pc = "unlock"
    /\ mu' = [mu EXCEPT !.writer = "", !.held = FALSE]
    /\ thread' = [thread EXCEPT ![w] = ThreadIdle]
    /\ UNCHANGED <<privateSessionLockLocked, slice, heap>>
    /\ WriterStep

\* a step of the dispatcher changes no slice
DispatcherStep ==
    /\ ConcStep
    /\ UNCHANGED <<privateSessionLockLocked, slice, heap>>

\* l.Dispatch(event) up to l.mu.RLock(): the switch and the len() test,
\* which reads the header without holding l.mu.  The finished slice is nil,
\* so that Dispatch returns at once unless the event is locked and the
\* length it reads is positive.
DispatchBegin(event) ==
    /\ thread[Dispatcher].pc = "idle"
    /\ thread' = [thread EXCEPT ![Dispatcher].pc =
                     IF event.Opcode = LockEventLocked /\ slice.len > 0
                     THEN "rlock" ELSE "idle"]
    /\ UNCHANGED <<mu, calls, snapshot>>
    /\ DispatcherStep

\* an RLock that does not wait for the writer
DispatchRLockFree ==
    /\ thread[Dispatcher].pc = "rlock"
    /\ mu' = [mu EXCEPT !.readers = @ + 1]
    /\ thread' = [thread EXCEPT ![Dispatcher].pc = "range"]
    /\ UNCHANGED <<calls, snapshot>>
    /\ ConcStep
    /\ UNCHANGED <<privateSessionLockLocked, slice, heap>>

\* l.mu.RLock(): waits while a writer holds l.mu or is waiting for it
DispatchRLock ==
    /\ thread[Dispatcher].pc = "rlock"
    /\ mu.writer = ""
    /\ mu' = [mu EXCEPT !.readers = @ + 1]
    /\ thread' = [thread EXCEPT ![Dispatcher].pc = "range"]
    /\ UNCHANGED <<calls, snapshot>>
    /\ DispatcherStep

\* range l.privateSessionLockLocked: the header is read once
DispatchRange ==
    /\ thread[Dispatcher].pc = "range"
    /\ thread' = [thread EXCEPT ![Dispatcher].pc = "loop",
                                ![Dispatcher].s = slice,
                                ![Dispatcher].i = 0]
    /\ snapshot' = privateSessionLockLocked[ConcLock]
    /\ UNCHANGED <<mu, calls>>
    /\ DispatcherStep

\* one round of the loop: h.HandleSessionLockLocked(ev) on the next cell, or
\* the end of the loop
DispatchNext ==
    /\ thread[Dispatcher].pc = "loop"
    /\ LET me == thread[Dispatcher]
       IN IF me.i < me.s.len
          THEN /\ calls' = Append(calls,
                       Invocation(ConcLock, "Locked", heap[me.s.ptr][me.i + 1],
                                  SessionLockLockedEvent))
               /\ thread' = [thread EXCEPT ![Dispatcher].i = @ + 1]
          ELSE /\ calls' = calls
               /\ thread' = [thread EXCEPT ![Dispatcher].pc = "runlock"]
    /\ UNCHANGED <<mu, snapshot>>
    /\ DispatcherStep

\* l.mu.RUnlock(), and Dispatch returns: the record of its fan-out ends
DispatchRUnlock ==
    /\ thread[Dispatcher].pc = "runlock"
    /\ mu' = [mu EXCEPT !.readers = @ - 1]
    /\ thread' = [thread EXCEPT ![Dispatcher] = ThreadIdle]
    /\ calls' = <<>>
    /\ snapshot' = <<>>
    /\ DispatcherStep

NextConc ==
    \/ \E w \in Writers, h \in 0..NumHandlers : AddLockedCall(w, h)
    \/ \E w \in Writers, h \in 0..NumHandlers : RemoveLockedCall(w, h)
    \/ \E w \in Writers : WriterLock(w)
    \/ \E w \in Writers : WriterAcquire(w)
    \/ \E w \in Writers : AddLockedAppend(w)
    \/ \E w \in Writers : RemoveLockedFind(w)
    \/ \E w \in Writers : WriterStore(w)
    \/ \E w \in Writers : WriterUnlock(w)
    \/ \E e \in EmptyEvents : DispatchBegin(e)
    \/ DispatchRLock
    \/ DispatchRange
    \/ DispatchNext
    \/ DispatchRUnlock

SpecConc == InitEvents /\ [][NextConc]_vars

(***************************************************************************)
(* SpecPanic: SpecConc with handlers that may panic.  Dispatch has no      *)
(* defer and no recover: the panic leaves the loop and Dispatch at once,   *)
(* past l.mu.RUnlock(), and goes on to the caller of Dispatch.  The        *)
(* goroutine that called Dispatch delivers no further event.               *)
(***************************************************************************)
\* one round of the loop in which h.HandleSessionLockLocked(ev) panics
DispatchPanic ==
    /\ thread[Dispatcher].pc = "loop"
    /\ thread[Dispatcher].i < thread[Dispatcher].s.len
    /\ LET me == thread[Dispatcher]
       IN /\ calls' = Append(calls,
                    Invocation(ConcLock, "Locked", heap[me.s.ptr][me.i + 1],
                               SessionLockLockedEvent))
          /\ thread' = [thread EXCEPT ![Dispatcher].pc = "panicked",
                                      ![Dispatcher].i = @ + 1]
    /\ UNCHANGED <<mu, snapshot>>
    /\ DispatcherStep

NextPanic ==
    \/ \E w \in Writers, h \in 0..NumHandlers : AddLockedCall(w, h)
    \/ \E w \in Writers, h \in 0..NumHandlers : RemoveLockedCall(w, h)
    \/ \E w \in Writers : WriterLock(w)
    \/ \E w \in Writers : WriterAcquire(w)
    \/ \E w \in Writers : AddLockedAppend(w)
    \/ \E w \in Writers : RemoveLockedFind(w)
    \/ \E w \in Writers : WriterStore(w)
    \/ \E w \in Writers : WriterUnlock(w)
    \/ \E e \in EmptyEvents : DispatchBegin(e)
    \/ DispatchRLock
    \/ DispatchRange
    \/ DispatchNext
    \/ DispatchPanic
    \/ DispatchRUnlock

SpecPanic == InitEvents /\ [][NextPanic]_vars

(***************************************************************************)
(* SpecReentrant: SpecConc with handlers that may call AddLockedHandler    *)
(* or RemoveLockedHandler on the SessionLock whose event they are          *)
(* handling.  The call is made inside the loop of Dispatch, between        *)
(* l.mu.RLock() and l.mu.RUnlock(), and the loop goes on when it returns.  *)
(* Every goroutine inside a call is scheduled again and again, and a       *)
(* goroutine waiting for l.mu gets it if it is free again and again; when  *)
(* calls are made is left open.                                            *)
(***************************************************************************)
\* h.HandleSessionLockLocked(ev) is called and calls l.AddLockedHandler(g)
HandlerAddCall(g) ==
    /\ thread[Dispatcher].pc = "loop"
    /\ thread[Dispatcher].i < thread[Dispatcher].s.len
    /\ LET me == thread[Dispatcher]
       IN calls' = Append(calls,
                 Invocation(ConcLock, "Locked", heap[me.s.ptr][me.i + 1],
                            SessionLockLockedEvent))
    /\ thread' = [thread EXCEPT
           ![Dispatcher].pc = "handler",
           ![Nested] = IF g # NilHandler
                       THEN [ThreadIdle EXCEPT !.pc = "lock", !.op = "Add", !.h = g]
                       ELSE ThreadIdle]
    /\ UNCHANGED <<mu, snapshot>>
    /\ DispatcherStep

\* h.HandleSessionLockLocked(ev) is called and calls
\* l.RemoveLockedHandler(g)
HandlerRemoveCall(g) ==
    /\ thread[Dispatcher].pc = "loop"
    /\ thread[Dispatcher].i < thread[Dispatcher].s.len
    /\ LET me == thread[Dispatcher]
       IN calls' = Append(calls,
                 Invocation(ConcLock, "Locked", heap[me.s.ptr][me.i + 1],
                            SessionLockLockedEvent))
    /\ thread' = [thread EXCEPT
           ![Dispatcher].pc = "handler",
           ![Nested] = [ThreadIdle EXCEPT !.pc = "lock", !.op = "Remove", !.h = g]]
    /\ UNCHANGED <<mu, snapshot>>
    /\ DispatcherStep

\* the call the handler made has returned, the handler returns, and the loop
\* goes to the next element
HandlerReturn ==
    /\ thread[Dispatcher].pc = "handler"
    /\ thread[Nested].pc = "idle"
    /\ thread' = [thread EXCEPT ![Dispatcher].pc = "loop",
                                ![Dispatcher].i = @ + 1]
    /\ UNCHANGED <<mu, calls, snapshot>>
    /\ DispatcherStep

\* the steps of a goroutine inside AddLockedHandler / RemoveLockedHandler
InWriterCall(t) ==
    \/ WriterLock(t)
    \/ WriterAcquire(t)
    \/ AddLockedAppend(t)
    \/ RemoveLockedFind(t)
    \/ WriterStore(t)
    \/ WriterUnlock(t)

\* the steps of the goroutine inside Dispatch
InDispatch ==
    \/ DispatchRLock
    \/ DispatchRange
    \/ DispatchNext
    \/ \E g \in 0..NumHandlers : HandlerAddCall(g)
    \/ \E g \in 0..NumHandlers : HandlerRemoveCall(g)
    \/ HandlerReturn
    \/ DispatchRUnlock

NextReentrant ==
    \/ \E w \in Writers, h \in 0..NumHandlers : AddLockedCall(w, h)
    \/ \E w \in Writers, h \in 0..NumHandlers : RemoveLockedCall(w, h)
    \/ \E t \in Writers \cup {Nested} : WriterLock(t)
    \/ \E t \in Writers \cup {Nested} : WriterAcquire(t)
    \/ \E t \in Writers \cup {Nested} : AddLockedAppend(t)
    \/ \E t \in Writers \cup {Nested} : RemoveLockedFind(t)
    \/ \E t \in Writers \cup {Nested} : WriterStore(t)
    \/ \E t \in Writers \cup {Nested} : WriterUnlock(t)
    \/ \E e \in EmptyEvents : DispatchBegin(e)
    \/ DispatchRLock
    \/ DispatchRange
    \/ DispatchNext
    \/ \E g \in 0..NumHandlers : HandlerAddCall(g)
    \/ \E g \in 0..NumHandlers : HandlerRemoveCall(g)
    \/ HandlerReturn
    \/ DispatchRUnlock

FairReentrant ==
    /\ \A t \in Writers \cup {Nested} : SF_vars(InWriterCall(t))
    /\ SF_vars(InDispatch)

SpecReentrant == InitEvents /\ [][NextReentrant]_vars /\ FairReentrant

(***************************************************************************)
(* SpecClient: example/simple_locker.  main() runs LockSession and then    *)
(* waits for done; the event loop hands the compositor's events to the     *)
(* proxies; the signal goroutine runs once, whenever the signal arrives.   *)
(* The compositor may send any event of a proxy at any time.               *)
(***************************************************************************)
\* the LockClient, which listens to its Lock
ClientHandler == CHOOSE h \in Handlers : \A g \in Handlers : h <= g

\* a LockSurfaceHandler, which listens to one LockSurface
SurfaceHandler == CHOOSE h \in Handlers : \A g \in Handlers : h >= g

\* a step of the client is no call of the one-caller specifications
ClientStep == UNCHANGED <<call, ret, conc, reg>>

\* the process runs: main() has not returned and os.Exit was not called
Running == client.main # "exited"

\* LockSession: c.lock, err = c.lockManager.Lock(); a failure ends the process
ClientLock ==
    /\ client.main = "start"
    /\ currentId < MaxId
    /\ NewSessionLock
    /\ \E m \in Managers, ok \in BOOLEAN :
          /\ SendRequest(m, ManagerRequestLock, <<NextId>>, ok)
          /\ client' = [client EXCEPT !.lock = NextId,
                                      !.main = IF ok THEN "listen" ELSE "exited"]
    /\ NoDispatch
    /\ UNCHANGED destroyed
    /\ ClientStep

\* LockSession: ext.SessionLockAddListener(c.lock, c)
ClientAddListener ==
    /\ client.main = "listen"
    /\ privateSessionLockLocked' =
           [privateSessionLockLocked EXCEPT
               ![client.lock] = AddHandler(@, ClientHandler)]
    /\ privateSessionLockFinished' =
           [privateSessionLockFinished EXCEPT
               ![client.lock] = AddHandler(@, ClientHandler)]
    /\ client' = [client EXCEPT !.main = "surfaces", !.todo = IdsOf("WlOutput")]
    /\ out' = <<>>
    /\ NoDispatch
    /\ UNCHANGED <<currentId, objects, privateSessionLockSurfaceConfigure,
                   destroyed>>
    /\ ClientStep

\* LockSession: one round of the loop over c.outputs, createLockSurface(output).
\* A failed GetLockSurface is a warning, and the LockSurface is dropped.
ClientCreateLockSurface(surface, output) ==
    /\ client.main = "surfaces"
    /\ output \in client.todo
    /\ surface \in IdsOf("WlSurface")
    /\ currentId < MaxId
    /\ Register("Surface")
    /\ UNCHANGED <<privateSessionLockLocked, privateSessionLockFinished>>
    /\ \E ok \in BOOLEAN :
          /\ SendRequest(client.lock, LockRequestGetLockSurface,
                         <<NextId, surface, output>>, ok)
          /\ privateSessionLockSurfaceConfigure' =
                 Extend(privateSessionLockSurfaceConfigure, NextId,
                        IF ok THEN AddHandler(NilSlice, SurfaceHandler)
                        ELSE NilSlice)
          /\ client' = [client EXCEPT
                 !.todo = @ \ {output},
                 !.surfaces = IF ok THEN Extend(@, output, NextId) ELSE @]
    /\ NoDispatch
    /\ UNCHANGED destroyed
    /\ ClientStep

\* LockSession returns; main starts the event loop and waits for done
ClientStartLoop ==
    /\ client.main = "surfaces"
    /\ client.todo = {}
    /\ client' = [client EXCEPT !.main = "loop"]
    /\ out' = <<>>
    /\ NoDispatch
    /\ UNCHANGED <<currentId, objects, privates, destroyed>>
    /\ ClientStep

\* the event loop may dispatch: it runs and has not seen done closed
Looping == client.main = "loop" /\ ~client.done

\* the event loop dispatches a locked event: HandleSessionLockLocked
ClientDispatchLocked ==
    /\ Looping
    /\ lastEvent' = [target |-> client.lock, Opcode |-> LockEventLocked,
                     data |-> <<>>]
    /\ calls' = LockDispatchCalls(client.lock, Event(LockEventLocked, <<>>))
    /\ client' = [client EXCEPT !.lockedReceived = (@ \/ calls' # <<>>)]
    /\ out' = <<>>
    /\ UNCHANGED <<currentId, objects, privates, destroyed>>
    /\ ClientStep

\* a finished handler that unlocks without looking at lockedReceived
ClientDispatchFinishedUnlock ==
    /\ Looping
    /\ lastEvent' = [target |-> client.lock, Opcode |-> LockEventFinished,
                     data |-> <<>>]
    /\ calls' = LockDispatchCalls(client.lock, Event(LockEventFinished, <<>>))
    /\ IF calls' # <<>>
       THEN \E ok \in BOOLEAN :
               /\ SendRequest(client.lock, LockRequestUnlockAndDestroy, <<>>, ok)
               /\ destroyed' = IF ok THEN destroyed \cup {client.lock}
                               ELSE destroyed
               /\ client' = [client EXCEPT !.done = TRUE]
       ELSE /\ out' = <<>>
            /\ UNCHANGED <<destroyed, client>>
    /\ UNCHANGED <<currentId, objects, privates>>
    /\ ClientStep

\* the event loop dispatches a finished event: HandleSessionLockFinished
\* unlocks or destroys the Lock, whose error it drops, and closes done
ClientDispatchFinished ==
    /\ Looping
    /\ lastEvent' = [target |-> client.lock, Opcode |-> LockEventFinished,
                     data |-> <<>>]
    /\ calls' = LockDispatchCalls(client.lock, Event(LockEventFinished, <<>>))
    /\ IF calls' # <<>>
       THEN \E ok \in BOOLEAN :
               /\ SendRequest(client.lock,
                              IF client.lockedReceived
                              THEN LockRequestUnlockAndDestroy
                              ELSE LockRequestDestroy, <<>>, ok)
               /\ destroyed' = IF ok THEN destroyed \cup {client.lock}
                               ELSE destroyed
               /\ client' = [client EXCEPT !.done = TRUE]
       ELSE /\ out' = <<>>
            /\ UNCHANGED <<destroyed, client>>
    /\ UNCHANGED <<currentId, objects, privates>>
    /\ ClientStep

\* the event loop dispatches a configure event:
\* HandleSessionLockSurfaceConfigure acknowledges the serial it received
ClientDispatchConfigure(s, data) ==
    /\ Looping
    /\ s \in Surfaces
    /\ lastEvent' = [target |-> s, Opcode |-> SurfaceEventConfigure,
                     data |-> data]
    /\ calls' = SurfaceDispatchCalls(s, Event(SurfaceEventConfigure, data))
    /\ IF calls' # <<>>
       THEN \E ok \in BOOLEAN :
               SendRequest(s, SurfaceRequestAckConfigure,
                           <<calls'[1].ev.Serial>>, ok)
       ELSE out' = <<>>
    /\ UNCHANGED <<currentId, objects, privates, destroyed, client>>
    /\ ClientStep

\* the signal goroutine: <-sigChan, then UnlockAndDestroy if there is a Lock
\* and the locked event was received; the goroutine ends
ClientSignal ==
    /\ Running
    /\ client.signal = "waiting"
    /\ client' = [client EXCEPT !.signal = "handled"]
    /\ IF client.lock # 0 /\ client.lockedReceived
       THEN \E ok \in BOOLEAN :
               /\ SendRequest(client.lock, LockRequestUnlockAndDestroy, <<>>, ok)
               /\ destroyed' = IF ok THEN destroyed \cup {client.lock}
                               ELSE destroyed
       ELSE /\ out' = <<>>
            /\ UNCHANGED destroyed
    /\ NoDispatch
    /\ UNCHANGED <<currentId, objects, privates>>
    /\ ClientStep

\* main: <-client.done has returned, and so does main
ClientExit ==
    /\ client.main = "loop"
    /\ client.done
    /\ client' = [client EXCEPT !.main = "exited"]
    /\ out' = <<>>
    /\ NoDispatch
    /\ UNCHANGED <<currentId, objects, privates, destroyed>>
    /\ ClientStep

NextClient ==
    \/ ClientLock
    \/ ClientAddListener
    \/ \E s \in IdsOf("WlSurface"), o \in IdsOf("WlOutput") :
          ClientCreateLockSurface(s, o)
    \/ ClientStartLoop
    \/ ClientDispatchLocked
    \/ ClientDispatchFinished
    \/ \E s \in Surfaces, d \in Payloads : ClientDispatchConfigure(s, d)
    \/ ClientSignal
    \/ ClientExit

SpecClient == Init /\ [][NextClient]_vars

(***************************************************************************)
(* SpecClientFair: the client with a scheduler that runs what can run:     *)
(* main goes through LockSession and returns once done is closed.  When    *)
(* the compositor sends an event and when a signal arrives is not up to    *)
(* the program, and is left open.                                          *)
(***************************************************************************)
\* the statements of main and LockSession
MainSteps ==
    \/ ClientLock
    \/ ClientAddListener
    \/ \E s \in IdsOf("WlSurface"), o \in IdsOf("WlOutput") :
          ClientCreateLockSurface(s, o)
    \/ ClientStartLoop
    \/ ClientExit

FairClient == WF_vars(MainSteps)

SpecClientFair == Init /\ [][NextClient]_vars /\ FairClient

(***************************************************************************)
(* Vocabulary of the properties.                                           *)
(***************************************************************************)
\* how many entries of the sequence s satisfy: s[i] = h
Occ(h, s) == Cardinality({i \in 1..Len(s) : s[i] = h})

\* how many of the last step's invocations called handler h
Invoked(h) == Cardinality({i \in 1..Len(calls) : calls[i].h = h})

\* the handlers the last step invoked, in the order of invocation
InvokedSeq == [i \in 1..Len(calls) |-> calls[i].h]

\* the listener slice that the event ev is for; none when the opcode is not
\* an event of the object it was delivered to
Addressed(ev) ==
    IF ev.target \in Locks /\ ev.Opcode = 0
        THEN privateSessionLockLocked[ev.target]
    ELSE IF ev.target \in Locks /\ ev.Opcode = 1
        THEN privateSessionLockFinished[ev.target]
    ELSE IF ev.target \in Surfaces /\ ev.Opcode = 0
        THEN privateSessionLockSurfaceConfigure[ev.target]
    ELSE <<>>

\* the listener slice the last step's event was for
LastAddressed == Addressed(lastEvent)

\* the last step delivered an event
Dispatched == lastEvent.target # 0

\* some call removed the handler h from a listener slice in this step
RemoveStep(h) ==
    \/ \E l \in Locks : RemoveLockedHandler(l, h) \/ RemoveFinishedHandler(l, h)
    \/ \E s \in Surfaces : RemoveConfigureHandler(s, h)

\* the three listener slices as one function: <<kind, id>> -> slice
Slices ==
    [k \in ({"Locked", "Finished"} \X Locks) \cup ({"Configure"} \X Surfaces) |->
        IF k[1] = "Locked" THEN privateSessionLockLocked[k[2]]
        ELSE IF k[1] = "Finished" THEN privateSessionLockFinished[k[2]]
        ELSE privateSessionLockSurfaceConfigure[k[2]]]

(***************************************************************************)
(* C1.  As claimed: each dispatched event of a listener's type invokes a   *)
(* registered listener exactly once, and once removeHandler has returned   *)
(* the listener is in no slice it was removed from, so that no later       *)
(* dispatch invokes it.                                                    *)
(***************************************************************************)
C1_OncePerEventUntilRemoved ==
    [][/\ \A h \in Handlers : Occ(h, LastAddressed') > 0 => Invoked(h)' = 1
       /\ privates' # privates =>
             \A h \in Handlers, k \in DOMAIN Slices :
                Slices'[k] # Slices[k] /\ RemoveStep(h) =>
                    Occ(h, Slices'[k]) = 0
      ]_vars

(***************************************************************************)
(* C1, amended.  A listener is invoked once per entry it has in the slice: *)
(* k times per dispatched event of its type when it was added k times more *)
(* often than removed.  removeHandler takes away one entry, so afterwards  *)
(* the listener is invoked k-1 times per event: never again when it was    *)
(* registered once.                                                        *)
(***************************************************************************)
C1_OncePerEntry ==
    [][/\ \A h \in Handlers : Invoked(h)' = Occ(h, LastAddressed')
       /\ privates' # privates =>
             \A h \in Handlers, k \in DOMAIN Slices :
                Slices'[k] # Slices[k] /\ RemoveStep(h) =>
                    /\ Occ(h, Slices'[k]) = Occ(h, Slices[k]) - 1
                    /\ \A g \in Handlers \ {h} :
                           Occ(g, Slices'[k]) = Occ(g, Slices[k])
      ]_vars

\* a listener registered twice has just been invoked twice by one event
C1_Witness ==
    /\ Dispatched
    /\ \E h \in Handlers : Invoked(h) = 2 /\ Occ(h, LastAddressed) = 2

(***************************************************************************)
(* C2.  No request that is written carries, as its sender or as an object  *)
(* argument, the id of a proxy whose Destroy (for a Lock: Destroy or       *)
(* UnlockAndDestroy) was written before.                                   *)
(***************************************************************************)
\* the object ids in the message m: the sender, and the arguments of the
\* requests that name objects (AckConfigure carries a serial)
ObjectIds(m, objs) ==
    {m.sender} \cup (IF objs[m.sender] \in {"Manager", "Lock"}
                     THEN {m.args[i] : i \in DOMAIN m.args} ELSE {})

C2_NoRequestAfterDestroy ==
    [][\A i \in 1..Len(out') :
          out'[i].ok => ObjectIds(out'[i], objects') \cap destroyed = {}
      ]_vars

(***************************************************************************)
(* C3.  As claimed: under every interleaving of AddLockedHandler and       *)
(* RemoveLockedHandler callers with a fan-out, the slice holds what the    *)
(* calls give when applied one after the other, the fan-out invokes the    *)
(* entries of the slice as it was when the fan-out began, each once and in *)
(* order, and a listener whose removal is waiting for the fan-out to end   *)
(* has been invoked once or not at all.                                    *)
(***************************************************************************)
\* no writer is between its array writes and the store of the header
Settled == \A w \in Writers : thread[w].pc # "store"

\* the slice is the result of the calls applied in the order of their stores
NoLostUpdate ==
    Settled => View(slice, heap) = privateSessionLockLocked[ConcLock]

\* the fan-out walks the slice as it was at RLock, entry by entry
SnapshotFanOut ==
    /\ thread[Dispatcher].pc = "loop" =>
          InvokedSeq = SubSeq(snapshot, 1, thread[Dispatcher].i)
    /\ thread[Dispatcher].pc = "runlock" =>
          /\ InvokedSeq = snapshot
          /\ snapshot = privateSessionLockLocked[ConcLock]
          /\ \A i \in 1..Len(calls) : calls[i].event = "Locked"

\* the handlers whose removal was called during the fan-out that has just
\* ended, and has not got hold of l.mu yet
RemovedMeanwhile ==
    IF thread[Dispatcher].pc = "runlock"
    THEN {thread[w].h : w \in {v \in Writers : thread[v].op = "Remove"
                                   /\ thread[v].pc \in {"lock", "wait"}}}
    ELSE {}

C3_RemovedOnceOrNever ==
    /\ NoLostUpdate
    /\ SnapshotFanOut
    /\ \A h \in RemovedMeanwhile : Invoked(h) <= 1

(***************************************************************************)
(* C3, amended.  The slice holds what the calls give when applied one      *)
(* after the other, and the fan-out invokes the entries of the slice as it *)
(* was when the fan-out began, each once and in order.  A listener whose   *)
(* removal is waiting for the fan-out to end has been invoked once for     *)
(* each entry it has in that slice: twice when it was added twice.         *)
(***************************************************************************)
C3_SnapshotPerEntry ==
    /\ NoLostUpdate
    /\ SnapshotFanOut
    /\ \A h \in RemovedMeanwhile : Invoked(h) = Occ(h, snapshot)

\* a fan-out over two entries has ended while one goroutine, which holds
\* off new readers, waits to remove a listener that was invoked, and the
\* other goroutine waits behind it
C3_Witness ==
    /\ thread[Dispatcher].pc = "runlock"
    /\ Len(calls) = 2
    /\ \E w \in Writers :
          /\ thread[w].op = "Remove"
          /\ thread[w].pc = "wait"
          /\ Invoked(thread[w].h) >= 1
    /\ \E w \in Writers : thread[w].pc = "lock"

(***************************************************************************)
(* C4.  The child proxy of Manager.Lock and of Lock.GetLockSurface is      *)
(* registered before the request is handed to SendRequest: while the call  *)
(* is between its two statements the child is registered and nothing has   *)
(* been sent, and the new id a sent request carries is a registered proxy  *)
(* of the kind the request creates.                                        *)
(***************************************************************************)
\* the kind of object a request creates, "" when it creates none
Creates(m) ==
    IF objects[m.sender] = "Manager" /\ m.opcode = 1 THEN "Lock"
    ELSE IF objects[m.sender] = "Lock" /\ m.opcode = 1 THEN "Surface"
    ELSE ""

C4_RegisteredBeforeSend ==
    /\ call.op # "idle" =>
          /\ out = <<>>
          /\ call.retId \in DOMAIN objects
          /\ objects[call.retId] =
                 (IF call.op = "ManagerLock" THEN "Lock" ELSE "Surface")
    /\ \A i \in 1..Len(out) :
          Creates(out[i]) # "" =>
              /\ out[i].args[1] \in DOMAIN objects
              /\ objects[out[i].args[1]] = Creates(out[i])

\* a GetLockSurface request has just been sent
C4_Witness ==
    /\ out # <<>>
    /\ Creates(out[1]) = "Surface"
    /\ out[1].ok

(***************************************************************************)
(* C5.  Manager.Lock returns a proxy under an id that no registered object *)
(* had when it was called, and a locked event (opcode 0, no payload)       *)
(* delivered to that id invokes each locked listener of that Lock once,    *)
(* whether or not the Lock request went out.                               *)
(***************************************************************************)
C5_FreshAndRouted ==
    [][/\ call.op = "idle" /\ call'.op = "ManagerLock" =>
             /\ call'.retId \notin DOMAIN objects
             /\ call'.retId \in DOMAIN objects'
             /\ objects'[call'.retId] = "Lock"
             /\ \A i \in DOMAIN objects : objects'[i] = objects[i]
       /\ ret'.from = "ManagerLock" => ret'.proxy = call.retId
       /\ lastEvent'.target \in Locks' /\ lastEvent'.Opcode = 0
            /\ lastEvent'.data = <<>> =>
             calls' = [i \in 1..Len(privateSessionLockLocked'[lastEvent'.target])
                         |-> [obj |-> lastEvent'.target, event |-> "Locked",
                              h |-> privateSessionLockLocked'[lastEvent'.target][i],
                              ev |-> <<>>]]
      ]_vars

\* a locked event reached the one listener of a Lock that Manager.Lock made
C5_Witness ==
    /\ lastEvent.target \in Locks
    /\ lastEvent.Opcode = 0
    /\ Len(calls) = 1
    /\ calls[1].obj = lastEvent.target
    /\ calls[1].h \in Handlers

(***************************************************************************)
(* C6.  Each Lock.GetLockSurface call returns a LockSurface under an id of *)
(* its own, and an event delivered to one LockSurface invokes the          *)
(* listeners of that LockSurface only: its own, each once, and none that   *)
(* is attached to another LockSurface.                                     *)
(***************************************************************************)
C6_DistinctAndIsolated ==
    [][/\ call.op = "idle" /\ call'.op = "GetLockSurface" =>
             /\ call'.retId \notin DOMAIN objects
             /\ objects'[call'.retId] = "Surface"
             /\ Surfaces' = Surfaces \cup {call'.retId}
             /\ \A i \in DOMAIN objects : objects'[i] = objects[i]
       /\ ret'.from = "GetLockSurface" => ret'.proxy = call.retId
       /\ lastEvent'.target \in Surfaces' =>
             /\ \A i \in 1..Len(calls') : calls'[i].obj = lastEvent'.target
             /\ lastEvent'.Opcode = 0 =>
                   InvokedSeq' =
                       privateSessionLockSurfaceConfigure'[lastEvent'.target]
      ]_vars

\* two LockSurfaces; the event went to the one that has no listener, and the
\* listener of the other one was not invoked
C6_Witness ==
    /\ lastEvent.target \in Surfaces
    /\ lastEvent.Opcode = 0
    /\ calls = <<>>
    /\ \E s \in Surfaces \ {lastEvent.target} :
          privateSessionLockSurfaceConfigure[s] # <<>>

(***************************************************************************)
(* C7.  An event whose opcode the receiving object does not define (any    *)
(* opcode for a Manager, 2 and above for a Lock, 1 and above for a         *)
(* LockSurface) invokes no listener and leaves every listener slice as it  *)
(* was; Dispatch returns.                                                  *)
(***************************************************************************)
UnknownOpcode(ev) ==
    \/ ev.target \in Managers
    \/ ev.target \in Locks /\ ev.Opcode >= 2
    \/ ev.target \in Surfaces /\ ev.Opcode >= 1

C7_UnknownOpcodeIgnored ==
    [][UnknownOpcode(lastEvent)' => calls' = <<>> /\ privates' = privates]_vars

\* a Lock with a listener of either event was sent an opcode it does not know
C7_Witness ==
    /\ lastEvent.target \in Locks
    /\ lastEvent.Opcode >= 2
    /\ privateSessionLockLocked[lastEvent.target] # <<>>
    /\ privateSessionLockFinished[lastEvent.target] # <<>>

(***************************************************************************)
(* C8.  Every request method makes one SendRequest call, with the sender,  *)
(* the opcode and the arguments the protocol fixes; a new object's id is   *)
(* the first argument.                                                     *)
(***************************************************************************)
\* the step made exactly one SendRequest call, for this message
Sent(sender, opcode, args) ==
    /\ Len(out') = 1
    /\ out'[1].sender = sender
    /\ out'[1].opcode = opcode
    /\ out'[1].args = args

C8_RequestEncoding ==
    [][/\ \A m \in Managers : ManagerDestroy(m) => Sent(m, 0, <<>>)
       /\ ManagerLockSend =>
             /\ Sent(call.self, 1, <<ret'.proxy>>)
             /\ call.self \in Managers
             /\ ret'.proxy \in Locks
       /\ \A l \in Locks : LockDestroy(l) => Sent(l, 0, <<>>)
       /\ LockGetLockSurfaceSend =>
             /\ Sent(call.self, 1, <<ret'.proxy, call.surface, call.output>>)
             /\ call.self \in Locks
             /\ ret'.proxy \in Surfaces
             /\ call.surface \in IdsOf("WlSurface")
             /\ call.output \in IdsOf("WlOutput")
       /\ \A l \in Locks : LockUnlockAndDestroy(l) => Sent(l, 2, <<>>)
       /\ \A s \in Surfaces : SurfaceDestroy(s) => Sent(s, 0, <<>>)
       /\ \A s \in Surfaces, w \in Words :
             SurfaceAckConfigure(s, w) => Sent(s, 1, <<w>>)
       /\ out' = <<>> => ret'.from = ""
      ]_vars

\* GetLockSurface has just sent its three arguments
C8_Witness ==
    /\ ret.from = "GetLockSurface"
    /\ Len(out) = 1
    /\ Len(out[1].args) = 3
    /\ out[1].args[1] = ret.proxy

(***************************************************************************)
(* C9.  Opcode 0 delivered to a Lock invokes its locked listeners and no   *)
(* other, opcode 1 its finished listeners and no other; when Dispatch      *)
(* returns every listener of the event has been invoked, in the order in   *)
(* which the listeners were registered.                                    *)
(***************************************************************************)
\* s with its first entry equal to h taken out
WithoutFirst(s, h) ==
    LET i == CHOOSE j \in 1..Len(s) :
                 s[j] = h /\ \A n \in 1..(j - 1) : s[n] # h
    IN [n \in 1..(Len(s) - 1) |-> IF n < i THEN s[n] ELSE s[n + 1]]

\* registration order: a new listener goes last, a removal moves no other
KeepsOrder(old, new) ==
    \/ new = old
    \/ \E h \in Handlers : new = old \o <<h>>
    \/ \E h \in Handlers : Occ(h, old) > 0 /\ new = WithoutFirst(old, h)

C9_LockFanOut ==
    [][/\ lastEvent'.target \in Locks /\ lastEvent'.Opcode = 0 =>
             /\ InvokedSeq' = privateSessionLockLocked'[lastEvent'.target]
             /\ \A i \in 1..Len(calls') :
                   calls'[i].event = "Locked" /\ calls'[i].obj = lastEvent'.target
       /\ lastEvent'.target \in Locks /\ lastEvent'.Opcode = 1 =>
             /\ InvokedSeq' = privateSessionLockFinished'[lastEvent'.target]
             /\ \A i \in 1..Len(calls') :
                   calls'[i].event = "Finished" /\ calls'[i].obj = lastEvent'.target
       /\ privates' # privates =>
             \A k \in DOMAIN Slices : KeepsOrder(Slices[k], Slices'[k])
      ]_vars

\* two different locked listeners were invoked, and the finished listener
\* of the same Lock was not
C9_Witness ==
    /\ lastEvent.target \in Locks
    /\ lastEvent.Opcode = 0
    /\ Len(calls) >= 2
    /\ calls[1].h # calls[2].h
    /\ privateSessionLockFinished[lastEvent.target] # <<>>

(***************************************************************************)
(* C10.  A configure event (opcode 0) with the payload words (a, b, c)     *)
(* reaches every configure listener of the LockSurface as the event value  *)
(* Serial = a, Width = b, Height = c.                                      *)
(***************************************************************************)
C10_ConfigureDecoded ==
    (lastEvent.target \in Surfaces /\ lastEvent.Opcode = 0) =>
        /\ Len(calls) = Len(privateSessionLockSurfaceConfigure[lastEvent.target])
        /\ \A i \in 1..Len(calls) :
              /\ calls[i].event = "Configure"
              /\ calls[i].ev.Serial = lastEvent.data[1]
              /\ calls[i].ev.Width = lastEvent.data[2]
              /\ calls[i].ev.Height = lastEvent.data[3]
              /\ DOMAIN calls[i].ev = {"Serial", "Width", "Height"}

\* the payload (7, 1920, 1080) reached a listener as Serial 7, Width 1920,
\* Height 1080
C10_Witness ==
    /\ lastEvent.target \in Surfaces
    /\ lastEvent.Opcode = 0
    /\ lastEvent.data = <<7, 1920, 1080>>
    /\ calls # <<>>
    /\ calls[1].ev = [Serial |-> 7, Width |-> 1920, Height |-> 1080]

(***************************************************************************)
(* C11.  Removing a handler that is not in the listener slice changes      *)
(* nothing: the three slices of every object keep their entries and their  *)
(* order, the call invokes no handler, and every event delivered next      *)
(* invokes exactly the handlers it would have invoked without the call.    *)
(***************************************************************************)
C11_RemoveAbsentIsNoOp ==
    [][(reg'.op = "Remove" /\ Occ(reg'.h, Slices[<<reg'.kind, reg'.obj>>]) = 0) =>
           /\ privates' = privates
           /\ calls' = <<>>
           /\ \A l \in Locks : \A e \in EmptyEvents :
                 LockDispatchCalls(l, e)' = LockDispatchCalls(l, e)
           /\ \A sf \in Surfaces : \A e \in SurfaceEvents :
                 SurfaceDispatchCalls(sf, e)' = SurfaceDispatchCalls(sf, e)
      ]_vars

\* a registered handler was asked to be removed from a slice that holds two
\* other entries and not the handler
C11_Witness ==
    /\ reg.op = "Remove"
    /\ reg.h # NilHandler
    /\ reg.i = 0
    /\ Len(Slices[<<reg.kind, reg.obj>>]) = 2
    /\ Occ(reg.h, Slices[<<reg.kind, reg.obj>>]) = 0

(***************************************************************************)
(* C12.  Removing a handler that is in the listener slice k >= 1 times     *)
(* removes exactly one entry, the first one equal to it: k - 1 entries     *)
(* equal to it remain, every other handler keeps its number of entries,    *)
(* the remaining entries keep their relative order, and no other slice     *)
(* changes.                                                                *)
(***************************************************************************)
C12_RemoveFirstMatchOnly ==
    [][(reg'.op = "Remove" /\ Occ(reg'.h, Slices[<<reg'.kind, reg'.obj>>]) >= 1) =>
           LET k   == <<reg'.kind, reg'.obj>>
               old == Slices[k]
               new == Slices'[k]
           IN /\ Occ(reg'.h, new) = Occ(reg'.h, old) - 1
              /\ \A g \in Handlers \ {reg'.h} : Occ(g, new) = Occ(g, old)
              /\ new = WithoutFirst(old, reg'.h)
              /\ \A j \in DOMAIN Slices \ {k} : Slices'[j] = Slices[j]
      ]_vars

\* the slice was (h, g, h): the removal of h found it at position 1 and left
\* (g, h)
C12_Witness ==
    /\ reg.op = "Remove"
    /\ reg.i = 1
    /\ Len(Slices[<<reg.kind, reg.obj>>]) = 2
    /\ Slices[<<reg.kind, reg.obj>>][1] # reg.h
    /\ Slices[<<reg.kind, reg.obj>>][2] = reg.h

(***************************************************************************)
(* C14.  When the write of a request fails, the request method returns     *)
(* the error in the same call, it has made exactly one send attempt, and   *)
(* the listener slices and the registered objects are what they were       *)
(* before the attempt; no handler is invoked.                              *)
(***************************************************************************)
C14_FailedSendOnlyReturnsError ==
    [][(out' # <<>> /\ \E i \in 1..Len(out') : ~out'[i].ok) =>
           /\ Len(out') = 1
           /\ ret'.err
           /\ privates' = privates
           /\ objects' = objects
           /\ currentId' = currentId
           /\ calls' = <<>>
      ]_vars

\* a request of a SessionLock with a registered listener failed to be written
\* and the call returned the error
C14_Witness ==
    /\ out # <<>>
    /\ ~out[1].ok
    /\ ret.err
    /\ out[1].sender \in Locks
    /\ privateSessionLockLocked[out[1].sender] # <<>>

(***************************************************************************)
(* C15.  Manager.Lock and Lock.GetLockSurface return a proxy that is not   *)
(* nil and is registered in the context as a SessionLock, respectively a   *)
(* SessionLockSurface, whether or not the request was written; the error   *)
(* of a failed write is returned together with that proxy, which is the    *)
(* one whose id the request carried, and no step removes an object from    *)
(* the context, so the proxy stays registered.                             *)
(***************************************************************************)
C15_ChildReturnedAndRegistered ==
    [][/\ ret'.from \in {"ManagerLock", "GetLockSurface"} =>
             /\ ret'.proxy # 0
             /\ ret'.proxy \in DOMAIN objects'
             /\ objects'[ret'.proxy] =
                    (IF ret'.from = "ManagerLock" THEN "Lock" ELSE "Surface")
             /\ Len(out') = 1
             /\ out'[1].args[1] = ret'.proxy
             /\ ret'.err = ~out'[1].ok
       /\ \A i \in DOMAIN objects :
             i \in DOMAIN objects' /\ objects'[i] = objects[i]
      ]_vars

\* Manager.Lock failed to write its request and returned the error with a
\* registered SessionLock
C15_Witness ==
    /\ ret.from = "ManagerLock"
    /\ ret.err
    /\ ret.proxy \in Locks
    /\ out # <<>>
    /\ ~out[1].ok

(***************************************************************************)
(* C16.  Once a destroy request (Destroy or UnlockAndDestroy) of a proxy   *)
(* has been written, an event delivered to that proxy invokes no handler.  *)
(***************************************************************************)
C16_EventAfterDestroyIgnored ==
    [][(lastEvent'.target # 0 /\ lastEvent'.target \in destroyed) =>
           calls' = <<>>
      ]_vars

\* a step in which Dispatch reads the locked listener slice: the len() test,
\* the header read by range, or a cell read by the loop
DispatchReads ==
    \/ \E e \in EmptyEvents : e.Opcode = LockEventLocked /\ DispatchBegin(e)
    \/ DispatchRange
    \/ DispatchNext

(***************************************************************************)
(* C17.  Dispatch never reads a listener slice, the length test included,  *)
(* while a writer (an Add or Remove handler call) holds the write lock.    *)
(***************************************************************************)
C17_NoReadUnderWriteLock ==
    [][DispatchReads => ~mu.held]_vars

(***************************************************************************)
(* C13.  After a handler has panicked during a fan-out, the handlers       *)
(* behind it in the slice have been invoked as well, and the read lock     *)
(* Dispatch took is released.                                              *)
(***************************************************************************)
C13_PanicContained ==
    thread[Dispatcher].pc = "panicked" =>
        /\ InvokedSeq = snapshot
        /\ mu.readers = 0

(***************************************************************************)
(* C18.  Every call of AddLockedHandler, RemoveLockedHandler and Dispatch  *)
(* returns: a goroutine that is inside one of them is outside it again     *)
(* later, whatever the interleaving, also when the call is made by a       *)
(* handler during the fan-out of the same SessionLock.                     *)
(***************************************************************************)
C18_EveryCallReturns ==
    \A t \in Threads : (thread[t].pc # "idle") ~> (thread[t].pc = "idle")

\* the last step delivered the event with this opcode to the handler the
\* client registered on its Lock
ClientHandled(opcode) ==
    /\ lastEvent.target # 0
    /\ lastEvent.target = client.lock
    /\ lastEvent.Opcode = opcode
    /\ calls # <<>>

(***************************************************************************)
(* C19.  When the client's finished handler runs, it sends exactly one     *)
(* request on the Lock: UnlockAndDestroy if the locked handler has run     *)
(* before, Destroy if it has not; and it closes done, which was open until *)
(* then.  lockedReceived is set by the locked handler alone, and done is   *)
(* closed by the finished handler alone and never closed again.            *)
(***************************************************************************)
C19_FinishedTeardownOnce ==
    [][/\ ClientHandled(LockEventFinished)' =>
             /\ Len(calls') = 1
             /\ out' = <<Msg(client.lock,
                             IF client.lockedReceived
                             THEN LockRequestUnlockAndDestroy
                             ELSE LockRequestDestroy,
                             <<>>, out'[1].ok)>>
             /\ ~client.done
             /\ client'.done
       /\ ClientHandled(LockEventLocked)' => client'.lockedReceived
       /\ client'.lockedReceived # client.lockedReceived =>
             ClientHandled(LockEventLocked)' /\ client'.lockedReceived
       /\ client'.done # client.done =>
             ClientHandled(LockEventFinished)' /\ client'.done
      ]_vars

\* finished came after locked: UnlockAndDestroy was sent and done is closed
C19_Witness ==
    /\ ClientHandled(LockEventFinished)
    /\ client.lockedReceived
    /\ client.done
    /\ Len(out) = 1
    /\ out[1].opcode = LockRequestUnlockAndDestroy
    /\ out[1].sender = client.lock

\* the signal goroutine has just sent UnlockAndDestroy on the client's Lock:
\* the signal came after the locked event
SignalUnlocked ==
    /\ client.signal = "handled"
    /\ lastEvent = NoEvent
    /\ client.lockedReceived
    /\ out # <<>>
    /\ out[1].sender = client.lock
    /\ out[1].opcode = LockRequestUnlockAndDestroy

(***************************************************************************)
(* C20.  After the client has received a termination signal while the      *)
(* session is locked and has sent UnlockAndDestroy, the program            *)
(* terminates: main's wait for done ends and main returns.                 *)
(***************************************************************************)
C20_SignalTerminates ==
    SignalUnlocked ~> (client.main = "exited")

==========================================================================
